---- MODULE Spec2Model ----
(***************************************************************************)
(* Expense splitter: the ledger tables (groups, memberships, expenses,     *)
(* shares) and the request handlers of backend/app/routes that change      *)
(* them.  Money is held in whole cents; request bodies carry amounts in    *)
(* tenths of a cent ("mills") so that quantize(Decimal("0.01")) is a real  *)
(* conversion.  Every handler runs as one transaction: it works on a       *)
(* session copy of the tables and either commits it or, on abort(...) or   *)
(* a database error, leaves the committed tables as they were.             *)
(* Not modelled: expense_date and receipt_mime_type of an expense, the     *)
(* stored file of a receipt and the role of a membership, which no         *)
(* handler below reads, and the ids of share and membership rows, which    *)
(* are named by their unique keys (expense, user) and (group, user).       *)
(***************************************************************************)
EXTENDS Integers, Sequences, FiniteSets, TLC

\* ---------------------------------------------------------------- bounds
NumUsers == 2
NumGroups == 1
MaxExpenses == 1
MaxShares == 2
MaxTotal == 12
MaxSplitMembers == 3
NumProcs == 2
LedgerGroups == 2
LedgerExpenses == 2

\* ------------------------------------------------------------- constants
\* None, as paid_by_user_id: the payer is optional.
NoUser == 0

\* None, as receipt_filename: no receipt is attached.
NoFile == ""

Users == 1..NumUsers
GroupIds == 1..NumGroups
ExpenseIds == 1..MaxExpenses

\* Descriptions a create request and an update request carry.
CreateDescriptions == {"a"}
UpdateDescriptions == {"b"}

\* Amounts of request bodies, in mills.
AmountInputs == {-10, 5, 10, 15}
ShareAmountInputs == {-4, 10}

VARIABLES groups, members, expenses, shares, response, before, splitIn, splitOut,
          txns, raced

vars == <<groups, members, expenses, shares, response, before, splitIn, splitOut,
          txns, raced>>
tables == <<groups, members, expenses, shares>>

\* ------------------------------------------------------- pure functions

\* Decimal.quantize(Decimal("0.01")) in the default context (ROUND_HALF_EVEN):
\* mills to cents.
Quantize(m) ==
    LET a == IF m < 0 THEN -m ELSE m
        q == a \div 10
        r == a % 10
        up == IF r > 5 THEN q + 1
              ELSE IF r < 5 THEN q
              ELSE IF q % 2 = 0 THEN q ELSE q + 1
    IN IF m < 0 THEN -up ELSE up

\* (amount / n).quantize(Decimal("0.01"), rounding=ROUND_DOWN): ROUND_DOWN
\* truncates toward zero.
RoundDownDiv(amount, n) ==
    IF amount >= 0 THEN amount \div n ELSE -((-amount) \div n)

\* A new ExpenseShare(user_id, amount); is_settled takes the column default.
NewShare(uid, amt) == [user_id |-> uid, amount |-> amt, is_settled |-> FALSE]

\* The for loop of _equal_split from index idx on, remainder_cents counting down.
RECURSIVE SplitLoop(_, _, _, _)
SplitLoop(user_ids, idx, base, remainder_cents) ==
    IF idx > Len(user_ids) THEN <<>>
    ELSE IF remainder_cents > 0
         THEN <<NewShare(user_ids[idx], base + 1)>>
              \o SplitLoop(user_ids, idx + 1, base, remainder_cents - 1)
         ELSE <<NewShare(user_ids[idx], base)>>
              \o SplitLoop(user_ids, idx + 1, base, remainder_cents)

\* Faulty variant of _equal_split: the remainder is dropped.
EqualSplitNoRemainder(amount, user_ids) ==
    LET n == Len(user_ids) IN
    IF n = 0 THEN [aborted |-> TRUE, error |-> "empty_group", shares |-> <<>>]
    ELSE [aborted |-> FALSE, error |-> "none",
          shares |-> SplitLoop(user_ids, 1, RoundDownDiv(amount, n), 0)]

\* Faulty variant of _equal_split: an empty list yields no shares, no abort.
EqualSplitEmptyOk(amount, user_ids) ==
    LET n == Len(user_ids) IN
    IF n = 0 THEN [aborted |-> FALSE, error |-> "none", shares |-> <<>>]
    ELSE LET base == RoundDownDiv(amount, n)
         IN [aborted |-> FALSE, error |-> "none",
             shares |-> SplitLoop(user_ids, 1, base, amount - base * n)]

\* _equal_split: aborted (400) on an empty list, else one share per user id.
EqualSplit(amount, user_ids) ==
    LET n == Len(user_ids) IN
    IF n = 0 THEN [aborted |-> TRUE, error |-> "empty_group", shares |-> <<>>]
    ELSE LET base == RoundDownDiv(amount, n)
             subtotal == base * n
             remainder_cents == amount - subtotal
         IN [aborted |-> FALSE, error |-> "none",
             shares |-> SplitLoop(user_ids, 1, base, remainder_cents)]

RECURSIVE SumAmounts(_)
SumAmounts(s) == IF s = <<>> THEN 0 ELSE Head(s).amount + SumAmounts(Tail(s))

SeqRange(s) == {s[i] : i \in 1..Len(s)}
ShareUsers(s) == {s[i].user_id : i \in 1..Len(s)}

\* ----------------------------------------------------------- the tables

\* The committed tables as one value, and the session copy a handler works on.
DB == [groups |-> groups, members |-> members, expenses |-> expenses, shares |-> shares]

\* The tables after db.create_all(): no rows.  expenses and shares are
\* functions on the ids of the stored expenses.
EmptyDB ==
    [groups |-> {},
     members |-> [g \in GroupIds |-> <<>>],
     expenses |-> <<>>,
     shares |-> <<>>]

\* GroupMember.query.filter_by(group_id=..., user_id=...).first()
IsMember(d, g, uid) == uid \in SeqRange(d.members[g])

\* Faulty variant: the table has no unique constraint.
NoUniqueViolation(stored, inserted) == FALSE

\* The unique constraint uq_expense_share_expense_user.  The unit of work
\* emits the INSERTs of a flush before its DELETEs, so each inserted row is
\* checked against the rows still stored and the rows inserted before it.
UniqueViolation(stored, inserted) ==
    \E i \in 1..Len(inserted) :
        \/ inserted[i].user_id \in ShareUsers(stored)
        \/ \E j \in 1..(i - 1) : inserted[j].user_id = inserted[i].user_id

\* Faulty variant of the flush: what was flushed stays after the abort.
FlushKeeps(committed, session) == session

\* db.session.flush() and the autoflush before a query write inside the open
\* transaction: what is committed stays what it was.
Flush(committed, session) == committed

\* The integer primary key of a new row: one more than the largest stored.
NextId(used) == IF used = {} THEN 1 ELSE (CHOOSE m \in used : \A x \in used : x <= m) + 1

\* A handler's outcome: the response status, why it failed, and the tables
\* that are committed once the request is over.
Resp(status, error, d) == [status |-> status, error |-> error, db |-> d]

\* "key" in data
Has(data, key) == key \in DOMAIN data

Restrict(f, S) == [x \in S |-> f[x]]

\* ------------------------------------------------- routes/expenses.py

\* ExpenseCreateSchema.validate_shares: every supplied share amount, as sent,
\* must be positive.  A schema error is answered 422 before the view runs.
ValidateShares(data) ==
    Has(data, "shares") => \A i \in 1..Len(data.shares) : data.shares[i].amount > 0

\* Faulty variant of _ensure_user_in_group: it never aborts.
EnsureAnyUser(d, group_id, user_id) == TRUE

\* _ensure_user_in_group: TRUE when it returns, FALSE when it aborts (400).
EnsureUserInGroup(d, group_id, user_id) ==
    user_id = NoUser \/ IsMember(d, group_id, user_id)

\* Faulty variant of _replace_shares: the total is not compared to the amount.
ReplaceSharesNoSumCheck(s, expense_id, given, new_shares) ==
    LET amount == s.expenses[expense_id].amount
        group_id == s.expenses[expense_id].group_id
        objs == [i \in 1..Len(new_shares) |->
                    NewShare(new_shares[i].user_id, Quantize(new_shares[i].amount))]
    IN IF ~given THEN EqualSplit(amount, s.members[group_id])
       ELSE IF \E i \in 1..Len(new_shares) : ~IsMember(s, group_id, new_shares[i].user_id)
            THEN [aborted |-> TRUE, error |-> "share_user_not_member", shares |-> <<>>]
       ELSE [aborted |-> FALSE, error |-> "none", shares |-> objs]

\* _replace_shares up to its abort(400) calls: the new ExpenseShare objects.
\* given is FALSE for new_shares = None.
ReplaceShares(s, expense_id, given, new_shares) ==
    LET amount == s.expenses[expense_id].amount
        group_id == s.expenses[expense_id].group_id
        objs == [i \in 1..Len(new_shares) |->
                    NewShare(new_shares[i].user_id, Quantize(new_shares[i].amount))]
    IN IF ~given THEN EqualSplit(amount, s.members[group_id])
       ELSE IF \E i \in 1..Len(new_shares) : ~IsMember(s, group_id, new_shares[i].user_id)
            THEN [aborted |-> TRUE, error |-> "share_user_not_member", shares |-> <<>>]
       ELSE IF SumAmounts(objs) # amount
            THEN [aborted |-> TRUE, error |-> "sum_mismatch", shares |-> <<>>]
       ELSE [aborted |-> FALSE, error |-> "none", shares |-> objs]

\* Faulty variant of the tail of _replace_shares: the old rows are not deleted.
CommitSharesKeepOld(committed, session, expense_id, objs, status) ==
    IF UniqueViolation(session.shares[expense_id], objs)
    THEN Resp(500, "integrity", committed)
    ELSE Resp(status, "none",
              [session EXCEPT !.shares[expense_id] = @ \o objs])

\* The tail of _replace_shares (delete the old rows, add the new ones) and
\* the db.session.commit() of the handler that called it.
CommitShares(committed, session, expense_id, objs, status) ==
    IF UniqueViolation(session.shares[expense_id], objs)
    THEN Resp(500, "integrity", committed)
    ELSE Resp(status, "none", [session EXCEPT !.shares[expense_id] = objs])

\* GroupExpensesCollection.post
ExpensePost(d, group_id, data) ==
    IF ~ValidateShares(data) THEN Resp(422, "validation", d)
    ELSE IF group_id \notin d.groups THEN Resp(404, "not_found", d)
    ELSE
      LET amount == Quantize(data.amount)
          paid_by_user_id == IF Has(data, "paid_by_user_id")
                             THEN data.paid_by_user_id ELSE NoUser
          expense == [group_id |-> group_id,
                      description |-> data.description,
                      amount |-> amount,
                      paid_by_user_id |-> paid_by_user_id,
                      receipt_filename |-> NoFile]
          id == NextId(DOMAIN d.expenses)
          s1 == [d EXCEPT !.expenses = (id :> expense) @@ @,
                          !.shares = (id :> <<>>) @@ @]
          r == ReplaceShares(s1, id, Has(data, "shares"),
                             IF Has(data, "shares") THEN data.shares ELSE <<>>)
      IN IF ~EnsureUserInGroup(d, group_id, paid_by_user_id)
         THEN Resp(400, "payer_not_member", d)
         ELSE IF r.aborted THEN Resp(400, r.error, Flush(d, s1))
         ELSE CommitShares(d, s1, id, r.shares, 201)

\* ExpenseItem.patch
ExpensePatch(d, expense_id, data) ==
    IF expense_id \notin DOMAIN d.expenses THEN Resp(404, "not_found", d)
    ELSE
      LET group_id == d.expenses[expense_id].group_id
          s1 == IF Has(data, "description")
                THEN [d EXCEPT !.expenses[expense_id].description = data.description]
                ELSE d
          payerOK == Has(data, "paid_by_user_id")
                     => EnsureUserInGroup(s1, group_id, data.paid_by_user_id)
          s2 == IF Has(data, "paid_by_user_id")
                THEN [s1 EXCEPT !.expenses[expense_id].paid_by_user_id =
                                    data.paid_by_user_id]
                ELSE s1
          shares_given == Has(data, "shares")
          s3 == IF Has(data, "amount")
                THEN [s2 EXCEPT !.expenses[expense_id].amount = Quantize(data.amount)]
                ELSE s2
          r == ReplaceShares(s3, expense_id, shares_given,
                             IF shares_given THEN data.shares ELSE <<>>)
      IN IF ~payerOK THEN Resp(400, "payer_not_member", Flush(d, s1))
         ELSE IF ~(Has(data, "amount") \/ shares_given) THEN Resp(200, "none", s3)
         ELSE IF r.aborted THEN Resp(400, r.error, Flush(d, s3))
         ELSE CommitShares(d, s3, expense_id, r.shares, 200)

\* ExpenseItem.delete: the shares go with the expense (cascade).
ExpenseDelete(d, expense_id) ==
    IF expense_id \notin DOMAIN d.expenses THEN Resp(404, "not_found", d)
    ELSE Resp(204, "none",
              [d EXCEPT !.expenses = Restrict(@, DOMAIN @ \ {expense_id}),
                        !.shares = Restrict(@, DOMAIN @ \ {expense_id})])

\* Faulty variant of the settle handler: every share of the expense is settled.
ExpenseShareSettleAll(d, expense_id, owner, uid) ==
    IF expense_id \notin DOMAIN d.expenses THEN Resp(404, "not_found", d)
    ELSE IF ~(owner = expense_id /\ uid \in ShareUsers(d.shares[expense_id]))
         THEN Resp(404, "not_found", d)
    ELSE Resp(200, "none",
              [d EXCEPT !.shares[expense_id] =
                  [i \in 1..Len(@) |-> [@[i] EXCEPT !.is_settled = TRUE]]])

\* Faulty variant of the settle handler: the share is looked up by its id
\* alone, whatever expense the request names.
ExpenseShareSettleAnyExpense(d, expense_id, owner, uid) ==
    IF expense_id \notin DOMAIN d.expenses THEN Resp(404, "not_found", d)
    ELSE IF ~(owner \in DOMAIN d.shares /\ uid \in ShareUsers(d.shares[owner]))
         THEN Resp(404, "not_found", d)
    ELSE Resp(200, "none",
              [d EXCEPT !.shares[owner] =
                  [i \in 1..Len(@) |->
                      IF @[i].user_id = uid THEN [@[i] EXCEPT !.is_settled = TRUE]
                      ELSE @[i]]])

\* ExpenseShareSettle.post.  A share row is named by the expense that owns it
\* and its user (unique per expense): share_id is the id of row (owner, uid).
ExpenseShareSettle(d, expense_id, owner, uid) ==
    IF expense_id \notin DOMAIN d.expenses THEN Resp(404, "not_found", d)
    ELSE IF ~(owner = expense_id /\ uid \in ShareUsers(d.shares[expense_id]))
         THEN Resp(404, "not_found", d)
    ELSE Resp(200, "none",
              [d EXCEPT !.shares[expense_id] =
                  [i \in 1..Len(@) |->
                      IF @[i].user_id = uid THEN [@[i] EXCEPT !.is_settled = TRUE]
                      ELSE @[i]]])

\* --------------------------------------------------- routes/groups.py

\* GroupsCollection.post: a new group, with no members and no expenses.
GroupPost(d) ==
    Resp(201, "none", [d EXCEPT !.groups = @ \cup {NextId(@)}])

\* Faulty variant of the group delete: only the group row goes.
GroupDeleteNoCascade(d, group_id) ==
    IF group_id \notin d.groups THEN Resp(404, "not_found", d)
    ELSE Resp(204, "none", [d EXCEPT !.groups = @ \ {group_id}])

\* GroupItem.delete: memberships, expenses and their shares go with the group
\* (cascade="all, delete-orphan").
GroupDelete(d, group_id) ==
    IF group_id \notin d.groups THEN Resp(404, "not_found", d)
    ELSE LET kept == {e \in DOMAIN d.expenses : d.expenses[e].group_id # group_id}
         IN Resp(204, "none",
                 [groups |-> d.groups \ {group_id},
                  members |-> [d.members EXCEPT ![group_id] = <<>>],
                  expenses |-> Restrict(d.expenses, kept),
                  shares |-> Restrict(d.shares, kept)])

\* -------------------------------------------------- routes/members.py

\* GroupMembersCollection.post
MemberPost(d, group_id, user_id) ==
    IF group_id \notin d.groups THEN Resp(404, "not_found", d)
    ELSE IF user_id \notin Users THEN Resp(400, "user_not_found", d)
    ELSE IF IsMember(d, group_id, user_id) THEN Resp(409, "already_member", d)
    ELSE Resp(201, "none", [d EXCEPT !.members[group_id] = Append(@, user_id)])

\* GroupMemberItem.patch: the row is looked up as in delete below, and the
\* only column written is its role.
MemberPatch(d, group_id, owner, user_id) ==
    IF ~(owner = group_id /\ IsMember(d, group_id, user_id))
    THEN Resp(404, "not_found", d)
    ELSE Resp(200, "none", d)

\* Faulty variant: the shares of the user in the group's expenses go with
\* the membership.
MemberDeleteWithShares(d, group_id, owner, user_id) ==
    IF ~(owner = group_id /\ IsMember(d, group_id, user_id))
    THEN Resp(404, "not_found", d)
    ELSE Resp(204, "none",
              [d EXCEPT !.members[group_id] = SelectSeq(@, LAMBDA u : u # user_id),
                        !.shares = [e \in DOMAIN @ |->
                                       IF d.expenses[e].group_id = group_id
                                       THEN SelectSeq(@[e], LAMBDA sh : sh.user_id # user_id)
                                       ELSE @[e]]])

\* GroupMemberItem.delete.  A membership row is named by its group and its
\* user (unique per group): member_id is the id of row (owner, user_id).
MemberDelete(d, group_id, owner, user_id) ==
    IF ~(owner = group_id /\ IsMember(d, group_id, user_id))
    THEN Resp(404, "not_found", d)
    ELSE Resp(204, "none",
              [d EXCEPT !.members[group_id] = SelectSeq(@, LAMBDA u : u # user_id)])

\* ------------------------------------------------- routes/balances.py

\* net[uid] = net.get(uid, Decimal("0")) + x
NetAdd(net, uid, x) ==
    IF uid \in DOMAIN net THEN [net EXCEPT ![uid] = @ + x] ELSE (uid :> x) @@ net

\* Faulty variant of the shares loop: settled shares are subtracted too.
RECURSIVE SharesLoopAll(_, _, _)
SharesLoopAll(net, shs, i) ==
    IF i > Len(shs) THEN net
    ELSE SharesLoopAll(NetAdd(net, shs[i].user_id, -shs[i].amount), shs, i + 1)

\* for sh in exp.shares: subtract the unsettled ones.
RECURSIVE SharesLoop(_, _, _)
SharesLoop(net, shs, i) ==
    IF i > Len(shs) THEN net
    ELSE SharesLoop(IF ~shs[i].is_settled
                    THEN NetAdd(net, shs[i].user_id, -shs[i].amount)
                    ELSE net,
                    shs, i + 1)

\* for exp in expenses: credit the payer, then the shares loop.
RECURSIVE ExpensesLoop(_, _, _)
ExpensesLoop(d, net, ids) ==
    IF ids = {} THEN net
    ELSE LET e == CHOOSE x \in ids : \A y \in ids : x <= y
             exp == d.expenses[e]
             paid == IF exp.paid_by_user_id # NoUser
                     THEN NetAdd(net, exp.paid_by_user_id, exp.amount)
                     ELSE net
         IN ExpensesLoop(d, SharesLoop(paid, d.shares[e], 1), ids \ {e})

\* GroupBalances.get for a group that exists: the net dict, user id to cents.
Balances(d, group_id) ==
    ExpensesLoop(d, <<>>, {e \in DOMAIN d.expenses : d.expenses[e].group_id = group_id})

GroupBalancesGet(d, group_id) ==
    IF group_id \notin d.groups THEN Resp(404, "not_found", d)
    ELSE Resp(200, "none", d)

\* ------------------------------------------------- routes/receipts.py

\* ExpenseReceipt.post.  file is the name under which save_receipt_file
\* stored the upload, NoFile where the request carries no acceptable file.
ReceiptPost(d, expense_id, file) ==
    IF expense_id \notin DOMAIN d.expenses THEN Resp(404, "not_found", d)
    ELSE IF file = NoFile THEN Resp(400, "no_file", d)
    ELSE Resp(200, "none", [d EXCEPT !.expenses[expense_id].receipt_filename = file])

\* ExpenseReceipt.delete
ReceiptDelete(d, expense_id) ==
    IF expense_id \notin DOMAIN d.expenses THEN Resp(404, "not_found", d)
    ELSE IF d.expenses[expense_id].receipt_filename = NoFile
         THEN Resp(404, "no_receipt", d)
    ELSE Resp(200, "none", [d EXCEPT !.expenses[expense_id].receipt_filename = NoFile])

\* ------------------------------------------------------------ requests

Opt(key, vals) == {<<>>} \cup {key :> v : v \in vals}

ShareEntries == [user_id : Users, amount : ShareAmountInputs]
ShareLists == UNION {[1..n -> ShareEntries] : n \in 0..MaxShares}

\* Bodies ExpenseCreateSchema accepts: description and amount are required.
CreateRequests ==
    {[description |-> de, amount |-> am, paid_by_user_id |-> pa] @@ sh :
        de \in CreateDescriptions, am \in AmountInputs, pa \in {NoUser} \cup Users,
        sh \in Opt("shares", ShareLists)}

\* Bodies ExpenseUpdateSchema accepts: any subset of the fields.
UpdateRequests ==
    {de @@ am @@ pa @@ sh :
        de \in Opt("description", UpdateDescriptions), am \in Opt("amount", AmountInputs),
        pa \in Opt("paid_by_user_id", {NoUser} \cup Users),
        sh \in Opt("shares", ShareLists)}

\* ------------------------------------------------------------- actions

\* The requests being served at the same time, one per worker: none, unless
\* a specification lets requests overlap.
Procs == 1..NumProcs
NoTxns == [p \in Procs |-> [pc |-> "idle"]]

\* No request is being served.
NoResponse == [op |-> "idle", target |-> 0, has_amount |-> FALSE,
               has_shares |-> FALSE, status |-> 0, error |-> "none"]

Idle == response = NoResponse

Init ==
    /\ groups = EmptyDB.groups
    /\ members = EmptyDB.members
    /\ expenses = EmptyDB.expenses
    /\ shares = EmptyDB.shares
    /\ response = NoResponse
    /\ before = EmptyDB
    /\ splitIn = [amount |-> 0, user_ids |-> <<>>]
    /\ splitOut = [done |-> FALSE, aborted |-> FALSE, shares |-> <<>>]
    /\ txns = NoTxns
    /\ raced = {}

\* Requests are served one at a time.  The handler has run: what it committed,
\* the response on its way to the client, and (before) the tables as the
\* request found them.
Respond(op, target, has_amount, has_shares, r) ==
    /\ Idle
    /\ groups' = r.db.groups
    /\ members' = r.db.members
    /\ expenses' = r.db.expenses
    /\ shares' = r.db.shares
    /\ response' = [op |-> op, target |-> target, has_amount |-> has_amount,
                    has_shares |-> has_shares, status |-> r.status, error |-> r.error]
    /\ before' = DB
    /\ UNCHANGED <<splitIn, splitOut, txns, raced>>

\* The response reaches the client; the next request can be served.
ReturnResponse ==
    /\ ~Idle
    /\ response' = NoResponse
    /\ before' = EmptyDB
    /\ UNCHANGED <<groups, members, expenses, shares, splitIn, splitOut, txns, raced>>

PostGroup ==
    /\ NextId(groups) <= NumGroups
    /\ Respond("group_post", NextId(groups), FALSE, FALSE, GroupPost(DB))

DeleteGroup ==
    \E g \in GroupIds : Respond("group_delete", g, FALSE, FALSE, GroupDelete(DB, g))

PostMember ==
    \E g \in GroupIds, u \in 1..(NumUsers + 1) :
        Respond("member_post", g, FALSE, FALSE, MemberPost(DB, g, u))

DeleteMember ==
    \E g \in GroupIds, owner \in GroupIds, u \in Users :
        Respond("member_delete", g, FALSE, FALSE, MemberDelete(DB, g, owner, u))

PostExpense ==
    \E g \in GroupIds, data \in CreateRequests :
        LET r == ExpensePost(DB, g, data) IN
        /\ r.error \in {"validation", "not_found", "payer_not_member"}
           \/ NextId(DOMAIN expenses) <= MaxExpenses
        /\ Respond("post", g, TRUE, Has(data, "shares"), r)

PatchExpense ==
    \E e \in ExpenseIds, data \in UpdateRequests :
        Respond("patch", e, Has(data, "amount"), Has(data, "shares"),
                ExpensePatch(DB, e, data))

DeleteExpense ==
    \E e \in ExpenseIds : Respond("delete", e, FALSE, FALSE, ExpenseDelete(DB, e))

SettleShare ==
    \E e \in ExpenseIds, owner \in ExpenseIds, u \in Users :
        Respond("settle", e, FALSE, FALSE, ExpenseShareSettle(DB, e, owner, u))

GetBalances ==
    \E g \in GroupIds : Respond("balances", g, FALSE, FALSE, GroupBalancesGet(DB, g))

Next ==
    \/ PostGroup
    \/ DeleteGroup
    \/ PostMember
    \/ DeleteMember
    \/ PostExpense
    \/ PatchExpense
    \/ DeleteExpense
    \/ SettleShare
    \/ GetBalances
    \/ ReturnResponse

Spec == Init /\ [][Next]_vars

\* ------------------------- the same handlers over two groups, two expenses

\* A second specification of the same handlers with room for two groups and
\* two expenses at once, and with fewer request bodies: creates without
\* payer and explicit shares, updates that carry at most one field.
LedgerGroupIds == 1..LedgerGroups
LedgerExpenseIds == 1..LedgerExpenses

LedgerCreateRequests ==
    {data \in CreateRequests :
        ~Has(data, "shares") /\ data.amount = 15 /\ data.paid_by_user_id = NoUser}

LedgerUpdateRequests ==
    {data \in UpdateRequests :
        /\ Cardinality(DOMAIN data) <= 1
        /\ ~Has(data, "description")
        /\ ~Has(data, "paid_by_user_id")
        /\ Has(data, "amount") => data.amount = 15
        /\ Has(data, "shares") => data.shares = <<>>}

InitLedger ==
    /\ groups = {}
    /\ members = [g \in LedgerGroupIds |-> <<>>]
    /\ expenses = <<>>
    /\ shares = <<>>
    /\ response = NoResponse
    /\ before = EmptyDB
    /\ splitIn = [amount |-> 0, user_ids |-> <<>>]
    /\ splitOut = [done |-> FALSE, aborted |-> FALSE, shares |-> <<>>]
    /\ txns = NoTxns
    /\ raced = {}

LedgerPostGroup ==
    /\ NextId(groups) <= LedgerGroups
    /\ Respond("group_post", NextId(groups), FALSE, FALSE, GroupPost(DB))

LedgerDeleteGroup ==
    \E g \in LedgerGroupIds :
        Respond("group_delete", g, FALSE, FALSE, GroupDelete(DB, g))

LedgerPostMember ==
    \E g \in LedgerGroupIds, u \in Users :
        Respond("member_post", g, FALSE, FALSE, MemberPost(DB, g, u))

LedgerDeleteMember ==
    \E g \in LedgerGroupIds, owner \in LedgerGroupIds, u \in Users :
        Respond("member_delete", g, FALSE, FALSE, MemberDelete(DB, g, owner, u))

LedgerPostExpense ==
    \E g \in LedgerGroupIds, data \in LedgerCreateRequests :
        LET r == ExpensePost(DB, g, data) IN
        /\ r.error \in {"validation", "not_found", "payer_not_member"}
           \/ NextId(DOMAIN expenses) <= LedgerExpenses
        /\ Respond("post", g, TRUE, Has(data, "shares"), r)

LedgerPatchExpense ==
    \E e \in LedgerExpenseIds, data \in LedgerUpdateRequests :
        Respond("patch", e, Has(data, "amount"), Has(data, "shares"),
                ExpensePatch(DB, e, data))

LedgerDeleteExpense ==
    \E e \in LedgerExpenseIds :
        Respond("delete", e, FALSE, FALSE, ExpenseDelete(DB, e))

LedgerSettleShare ==
    \E e \in LedgerExpenseIds, owner \in LedgerExpenseIds, u \in Users :
        Respond("settle", e, FALSE, FALSE, ExpenseShareSettle(DB, e, owner, u))

LedgerGetBalances ==
    \E g \in LedgerGroupIds :
        Respond("balances", g, FALSE, FALSE, GroupBalancesGet(DB, g))

NextLedger ==
    \/ LedgerPostGroup
    \/ LedgerDeleteGroup
    \/ LedgerPostMember
    \/ LedgerDeleteMember
    \/ LedgerPostExpense
    \/ LedgerPatchExpense
    \/ LedgerDeleteExpense
    \/ LedgerSettleShare
    \/ LedgerGetBalances
    \/ ReturnResponse

SpecLedger == InitLedger /\ [][NextLedger]_vars

\* ------------------------------ share amounts with a third decimal

\* A third specification of the create and update handlers, for request
\* bodies whose share amounts include one that is positive as sent and 0.00
\* once rounded: one group, no deletes, no payer.
RoundingShareAmounts == {-4, 4, 10}

RoundingShareLists ==
    UNION {[1..n -> [user_id : Users, amount : RoundingShareAmounts]] :
              n \in 0..MaxShares}

RoundingCreateRequests ==
    {[description |-> de, amount |-> am, paid_by_user_id |-> NoUser] @@ sh :
        de \in CreateDescriptions, am \in {5, 10},
        sh \in Opt("shares", RoundingShareLists)}

RoundingUpdateRequests ==
    {am @@ sh : am \in Opt("amount", {5, 10}),
                sh \in Opt("shares", RoundingShareLists)}

RoundingPostExpense ==
    \E g \in GroupIds, data \in RoundingCreateRequests :
        LET r == ExpensePost(DB, g, data) IN
        /\ r.error \in {"validation", "not_found", "payer_not_member"}
           \/ NextId(DOMAIN expenses) <= MaxExpenses
        /\ Respond("post", g, TRUE, Has(data, "shares"), r)

RoundingPatchExpense ==
    \E e \in ExpenseIds, data \in RoundingUpdateRequests :
        Respond("patch", e, Has(data, "amount"), Has(data, "shares"),
                ExpensePatch(DB, e, data))

NextRounding ==
    \/ PostGroup
    \/ PostMember
    \/ RoundingPostExpense
    \/ RoundingPatchExpense
    \/ ReturnResponse

SpecRounding == Init /\ [][NextRounding]_vars

\* ----------------------------------------------- overlapping requests

\* A fourth specification in which two workers serve requests at the same
\* time, each with a session of its own.  A handler reads and validates
\* against what is committed when it runs, and its writes reach the database
\* at db.session.commit(); another worker's commit can fall in between.
\* Here: add member overlapping add member, and update overlapping update,
\* for updates that carry the amount alone or one explicit share alone.
\* Nothing is deleted other than the share rows an update replaces.

\* The second half of GroupMembersCollection.post, the add and the commit:
\* uq_group_member_group_user refuses a second row for (group, user).
MemberInsert(d, group_id, user_id) ==
    IF IsMember(d, group_id, user_id) THEN Resp(500, "integrity", d)
    ELSE Resp(201, "none", [d EXCEPT !.members[group_id] = Append(@, user_id)])

\* ExpenseItem.patch up to its commit, for a body without description and
\* payer, on the tables d it reads: the failure it answers, or (status 0) the
\* amount it assigned, the share rows it read and the share objects it built.
PatchPlan(d, expense_id, data) ==
    IF expense_id \notin DOMAIN d.expenses
    THEN [status |-> 404, error |-> "not_found"]
    ELSE
      LET shares_given == Has(data, "shares")
          s3 == IF Has(data, "amount")
                THEN [d EXCEPT !.expenses[expense_id].amount = Quantize(data.amount)]
                ELSE d
          r == ReplaceShares(s3, expense_id, shares_given,
                             IF shares_given THEN data.shares ELSE <<>>)
      IN IF r.aborted THEN [status |-> 400, error |-> r.error]
         ELSE [status |-> 0, error |-> "none",
               expense_id |-> expense_id,
               has_amount |-> Has(data, "amount"),
               read_amount |-> d.expenses[expense_id].amount,
               amount |-> s3.expenses[expense_id].amount,
               objs |-> r.shares]

\* Faulty variant of the commit of an update: the rows it read are never
\* deleted.
PatchWriteKeepOld(d, plan, stale) ==
    LET e == plan.expense_id IN
    IF UniqueViolation(d.shares[e], plan.objs) THEN Resp(500, "integrity", d)
    ELSE Resp(200, "none",
              [d EXCEPT !.expenses[e].amount =
                            IF plan.amount # plan.read_amount THEN plan.amount ELSE @,
                        !.shares[e] = @ \o plan.objs])

\* The commit of an update on the tables d committed by then: UPDATE the
\* amount if the handler changed it, INSERT the new share rows, DELETE by id
\* the share rows the handler read.  stale: another update of the expense
\* has committed since, so the rows read are gone and the DELETE matches none.
PatchWrite(d, plan, stale) ==
    LET e == plan.expense_id IN
    IF UniqueViolation(d.shares[e], plan.objs) THEN Resp(500, "integrity", d)
    ELSE Resp(200, "none",
              [d EXCEPT !.expenses[e].amount =
                            IF plan.amount # plan.read_amount THEN plan.amount ELSE @,
                        !.shares[e] = (IF stale THEN @ ELSE <<>>) \o plan.objs])

RaceCreateRequests ==
    {data \in CreateRequests :
        ~Has(data, "shares") /\ data.amount = 10 /\ data.paid_by_user_id = NoUser}

RaceUpdateRequests ==
    {data \in UpdateRequests :
        /\ Cardinality(DOMAIN data) = 1
        /\ Has(data, "amount") \/ Has(data, "shares")
        /\ Has(data, "amount") => data.amount = 15
        /\ Has(data, "shares") => Len(data.shares) = 1 /\ data.shares[1].amount = 10}

\* No worker is serving a request.
Quiet == txns = NoTxns

\* Every worker other than p is free or serves a request of kind op.
OthersServe(p, op) ==
    \A q \in Procs \ {p} : IF txns[q].pc = "idle" THEN TRUE ELSE txns[q].op = op

Done(op, r, extra) ==
    [pc |-> "done", op |-> op, status |-> r.status, error |-> r.error] @@ extra

RacePostGroup == Quiet /\ PostGroup

RacePostExpense ==
    /\ Quiet
    /\ \E g \in GroupIds, data \in RaceCreateRequests :
          LET r == ExpensePost(DB, g, data) IN
          /\ r.error \in {"validation", "not_found", "payer_not_member"}
             \/ NextId(DOMAIN expenses) <= LedgerExpenses
          /\ Respond("post", g, TRUE, Has(data, "shares"), r)

RaceReturnResponse == Quiet /\ ReturnResponse

\* Worker p runs add member up to the existence check.
BeginMemberPost(p) ==
    /\ Idle
    /\ txns[p].pc = "idle"
    /\ OthersServe(p, "member_post")
    /\ \E g \in GroupIds, u \in Users :
          LET r == MemberPost(DB, g, u) IN
          txns' = [txns EXCEPT ![p] =
                      IF r.status = 201
                      THEN [pc |-> "checked", op |-> "member_post",
                            group_id |-> g, user_id |-> u]
                      ELSE Done("member_post", r,
                                [group_id |-> g, user_id |-> u])]
    /\ UNCHANGED <<groups, members, expenses, shares, response, before,
                   splitIn, splitOut, raced>>

\* Worker p adds the row and commits.
FinishMemberPost(p) ==
    /\ txns[p].pc = "checked"
    /\ LET r == MemberInsert(DB, txns[p].group_id, txns[p].user_id) IN
       /\ members' = r.db.members
       /\ txns' = [txns EXCEPT ![p] =
                      Done("member_post", r,
                           [group_id |-> txns[p].group_id,
                            user_id |-> txns[p].user_id])]
    /\ UNCHANGED <<groups, expenses, shares, response, before,
                   splitIn, splitOut, raced>>

\* Worker p runs an update up to its commit.
BeginPatch(p) ==
    /\ Idle
    /\ txns[p].pc = "idle"
    /\ OthersServe(p, "patch")
    /\ \E e \in LedgerExpenseIds, data \in RaceUpdateRequests :
          LET plan == PatchPlan(DB, e, data) IN
          txns' = [txns EXCEPT ![p] =
                      IF plan.status = 0
                      THEN [pc |-> "validated", op |-> "patch", plan |-> plan,
                            stale |-> FALSE]
                      ELSE Done("patch", plan, <<>>)]
    /\ UNCHANGED <<groups, members, expenses, shares, response, before,
                   splitIn, splitOut, raced>>

\* Worker p commits its update; the other updates of the same expense that
\* have read their rows now hold stale ones.
FinishPatch(p) ==
    /\ txns[p].pc = "validated"
    /\ LET plan == txns[p].plan
           r == PatchWrite(DB, plan, txns[p].stale)
       IN /\ expenses' = r.db.expenses
          /\ shares' = r.db.shares
          /\ txns' = [q \in Procs |->
                        IF q = p
                        THEN Done("patch", r,
                                  [expense_id |-> plan.expense_id,
                                   has_amount |-> plan.has_amount,
                                   stale |-> txns[p].stale])
                        ELSE IF /\ r.status = 200
                                /\ txns[q].pc = "validated"
                                /\ txns[q].plan.expense_id = plan.expense_id
                             THEN [txns[q] EXCEPT !.stale = TRUE]
                             ELSE txns[q]]
          /\ raced' = IF r.status = 200 /\ txns[p].stale
                      THEN raced \cup {plan.expense_id} ELSE raced
    /\ UNCHANGED <<groups, members, response, before, splitIn, splitOut>>

\* Worker p's response has gone out.
RaceReturn(p) ==
    /\ txns[p].pc = "done"
    /\ txns' = [txns EXCEPT ![p] = [pc |-> "idle"]]
    /\ UNCHANGED <<groups, members, expenses, shares, response, before,
                   splitIn, splitOut, raced>>

NextRace ==
    \/ RacePostGroup
    \/ RacePostExpense
    \/ RaceReturnResponse
    \/ \E p \in Procs : BeginMemberPost(p)
    \/ \E p \in Procs : FinishMemberPost(p)
    \/ \E p \in Procs : BeginPatch(p)
    \/ \E p \in Procs : FinishPatch(p)
    \/ \E p \in Procs : RaceReturn(p)

SpecRace == Init /\ [][NextRace]_vars

\* ----------------------------------------- every route, small requests

\* A fifth specification that serves every route that writes to the tables,
\* receipts and the role of a member included, one request at a time, on one
\* group and up to LedgerExpenses expenses.  Creates carry no shares; an
\* update carries at most one of description, payer, amount and shares.

ReceiptFiles == {NoFile, "r.png"}

FrameCreateRequests ==
    {data \in CreateRequests :
        ~Has(data, "shares") /\ data.amount = 10 /\ data.paid_by_user_id = NoUser}

FrameUpdateRequests ==
    {data \in UpdateRequests :
        /\ Cardinality(DOMAIN data) <= 1
        /\ Has(data, "paid_by_user_id") => data.paid_by_user_id = 2
        /\ Has(data, "amount") => data.amount = 10
        /\ Has(data, "shares") => Len(data.shares) = 1 /\ data.shares[1].amount = 10}

PatchMember ==
    \E g \in GroupIds, owner \in GroupIds, u \in Users :
        Respond("member_patch", g, FALSE, FALSE, MemberPatch(DB, g, owner, u))

FramePostExpense ==
    \E g \in GroupIds, data \in FrameCreateRequests :
        LET r == ExpensePost(DB, g, data) IN
        /\ r.error \in {"validation", "not_found", "payer_not_member"}
           \/ NextId(DOMAIN expenses) <= LedgerExpenses
        /\ Respond("post", g, TRUE, Has(data, "shares"), r)

FramePatchExpense ==
    \E e \in LedgerExpenseIds, data \in FrameUpdateRequests :
        Respond("patch", e, Has(data, "amount"), Has(data, "shares"),
                ExpensePatch(DB, e, data))

PostReceipt ==
    \E e \in LedgerExpenseIds, file \in ReceiptFiles :
        Respond("receipt_post", e, FALSE, FALSE, ReceiptPost(DB, e, file))

DeleteReceipt ==
    \E e \in LedgerExpenseIds :
        Respond("receipt_delete", e, FALSE, FALSE, ReceiptDelete(DB, e))

NextFrame ==
    \/ PostGroup
    \/ DeleteGroup
    \/ PostMember
    \/ PatchMember
    \/ DeleteMember
    \/ FramePostExpense
    \/ FramePatchExpense
    \/ LedgerDeleteExpense
    \/ LedgerSettleShare
    \/ PostReceipt
    \/ DeleteReceipt
    \/ GetBalances
    \/ ReturnResponse

SpecFrame == Init /\ [][NextFrame]_vars

\* ------------------------------------------- _equal_split on its own

\* Ordered lists of distinct user ids, the empty list included.
SplitMemberLists ==
    {s \in UNION {[1..n -> 1..MaxSplitMembers] : n \in 0..MaxSplitMembers} :
        \A i, j \in 1..Len(s) : i # j => s[i] # s[j]}

InitSplit ==
    /\ groups = EmptyDB.groups
    /\ members = EmptyDB.members
    /\ expenses = EmptyDB.expenses
    /\ shares = EmptyDB.shares
    /\ response = NoResponse
    /\ before = EmptyDB
    /\ splitIn \in [amount : (-MaxTotal)..MaxTotal, user_ids : SplitMemberLists]
    /\ splitOut = [done |-> FALSE, aborted |-> FALSE, shares |-> <<>>]
    /\ txns = NoTxns
    /\ raced = {}

\* _equal_split(amount, user_ids) is called once on the drawn arguments.
ApplySplit ==
    /\ ~splitOut.done
    /\ LET r == EqualSplit(splitIn.amount, splitIn.user_ids)
       IN splitOut' = [done |-> TRUE, aborted |-> r.aborted, shares |-> r.shares]
    /\ UNCHANGED <<groups, members, expenses, shares, response, before, splitIn,
                   txns, raced>>

NextSplit == ApplySplit

SpecSplit == InitSplit /\ [][NextSplit]_vars

\* ---------------------------------------------------------------- claims

RECURSIVE SumFn(_)
SumFn(f) ==
    IF DOMAIN f = {} THEN 0
    ELSE LET x == CHOOSE y \in DOMAIN f : TRUE
         IN f[x] + SumFn(Restrict(f, DOMAIN f \ {x}))

\* C1: for every stored expense the amounts of its shares sum to the
\* expense's amount, in every committed state.
C1_Conservation ==
    \A e \in DOMAIN expenses : SumAmounts(shares[e]) = expenses[e].amount

\* C2: for a positive total and n >= 1 members, _equal_split returns n shares,
\* one per member in order, that sum to the total, are non-negative and differ
\* pairwise by at most one cent.
C2_EqualSplitExact ==
    (splitOut.done /\ splitIn.amount > 0 /\ Len(splitIn.user_ids) >= 1) =>
        LET out == splitOut.shares
            n == Len(splitIn.user_ids)
        IN /\ ~splitOut.aborted
           /\ Len(out) = n
           /\ \A i \in 1..n : out[i].user_id = splitIn.user_ids[i]
           /\ SumAmounts(out) = splitIn.amount
           /\ \A i \in 1..n : out[i].amount >= 0
           /\ \A i, j \in 1..n : out[i].amount - out[j].amount <= 1

C2_Witness ==
    /\ splitOut.done
    /\ splitIn.amount > Len(splitIn.user_ids)
    /\ Len(splitIn.user_ids) >= 2
    /\ splitIn.amount % Len(splitIn.user_ids) # 0
    /\ SumAmounts(splitOut.shares) = splitIn.amount

\* floor(total / n), for n > 0.
FloorDiv(total, n) == total \div n

\* C3: with base = floor(total/n) and r = total - base*n, the first r members
\* in input order get base+1 cent and the others base.
C3_RemainderPlacement ==
    (splitOut.done /\ Len(splitIn.user_ids) >= 1) =>
        LET n == Len(splitIn.user_ids)
            base == FloorDiv(splitIn.amount, n)
            r == splitIn.amount - base * n
        IN /\ ~splitOut.aborted
           /\ Len(splitOut.shares) = n
           /\ \A i \in 1..n :
                /\ splitOut.shares[i].user_id = splitIn.user_ids[i]
                /\ splitOut.shares[i].amount = IF i <= r THEN base + 1 ELSE base

\* The unsettled shares of user u on expense e, and what u paid and owes in
\* group g, summed from the tables.
PaidBy(g, u) ==
    SumFn([e \in {x \in DOMAIN expenses : /\ expenses[x].group_id = g
                                         /\ expenses[x].paid_by_user_id = u}
              |-> expenses[e].amount])

UnsettledOn(e, u) ==
    SumFn([i \in {k \in 1..Len(shares[e]) : /\ shares[e][k].user_id = u
                                           /\ ~shares[e][k].is_settled}
              |-> shares[e][i].amount])

UnsettledOf(g, u) ==
    SumFn([e \in {x \in DOMAIN expenses : expenses[x].group_id = g}
              |-> UnsettledOn(e, u)])

Participants(g) ==
    {u \in Users :
        \E e \in DOMAIN expenses :
            /\ expenses[e].group_id = g
            /\ \/ expenses[e].paid_by_user_id = u
               \/ \E k \in 1..Len(shares[e]) :
                     shares[e][k].user_id = u /\ ~shares[e][k].is_settled}

RECURSIVE SuppliedTotal(_)
SuppliedTotal(list) ==
    IF list = <<>> THEN 0 ELSE Quantize(Head(list).amount) + SuppliedTotal(Tail(list))

\* The amount in force for an update of expense e.
AmountInForce(e, data) ==
    IF Has(data, "amount") THEN Quantize(data.amount) ELSE expenses[e].amount

MismatchOnCreate(data) ==
    Has(data, "shares") /\ SuppliedTotal(data.shares) # Quantize(data.amount)

MismatchOnUpdate(e, data) ==
    Has(data, "shares") /\ SuppliedTotal(data.shares) # AmountInForce(e, data)

\* Some supplied share amount is <= 0 as sent.
NonPositiveShare(data) ==
    Has(data, "shares") /\ \E i \in 1..Len(data.shares) : data.shares[i].amount <= 0

\* The body names, as payer or in its explicit shares, a user who is not a
\* member of group g.
NonMemberRef(g, data) ==
    \/ /\ Has(data, "paid_by_user_id")
       /\ data.paid_by_user_id # NoUser
       /\ data.paid_by_user_id \notin SeqRange(members[g])
    \/ /\ Has(data, "shares")
       /\ \E i \in 1..Len(data.shares) : data.shares[i].user_id \notin SeqRange(members[g])

ValidationErrors ==
    {"payer_not_member", "share_user_not_member", "sum_mismatch", "empty_group"}

\* The response in flight answers a create or update that went through share
\* reconciliation and succeeded; the expense it is about.
Reconciled ==
    \/ response.op = "post" /\ response.status = 201
    \/ /\ response.op = "patch" /\ response.status = 200
       /\ (response.has_amount \/ response.has_shares)

ResponseExpense ==
    IF response.op = "post" THEN NextId(DOMAIN before.expenses) ELSE response.target

C6_Atomicity ==
    (response.op \in {"post", "patch"} /\ response.error \in ValidationErrors) =>
        /\ response.status = 400
        /\ DB = before

C6_Witness ==
    /\ response.op = "patch"
    /\ response.has_amount
    /\ response.error \in {"share_user_not_member", "sum_mismatch", "empty_group"}
    /\ response.target \in DOMAIN before.expenses
    /\ DB = before

C8_EmptyGroup ==
    /\ \A a \in AmountInputs : EqualSplit(Quantize(a), <<>>).aborted
    /\ ( /\ response.op = "post"
         /\ ~response.has_shares
         /\ response.target \in before.groups
         /\ before.members[response.target] = <<>> ) =>
            /\ response.status = 400
            /\ DOMAIN expenses = DOMAIN before.expenses
            /\ shares = before.shares
    /\ ( /\ response.op = "patch"
         /\ response.has_amount
         /\ ~response.has_shares
         /\ response.target \in DOMAIN before.expenses
         /\ before.members[before.expenses[response.target].group_id] = <<>> ) =>
            /\ response.status = 400
            /\ DOMAIN expenses = DOMAIN before.expenses
            /\ shares = before.shares

C8_Witness ==
    /\ response.op = "patch"
    /\ response.has_amount
    /\ ~response.has_shares
    /\ response.error = "empty_group"
    /\ response.target \in DOMAIN shares
    /\ shares[response.target] # <<>>

\* C9: after a successful update that carries amount and no shares, the
\* expense's shares are the equal split of the new amount over the members
\* the group has now, and they sum to the new amount.
C9_UpdateWithoutShares ==
    ( /\ response.op = "patch"
      /\ response.status = 200
      /\ response.has_amount
      /\ ~response.has_shares ) =>
        LET e == response.target
            g == expenses[e].group_id
        IN /\ shares[e] = EqualSplit(expenses[e].amount, members[g]).shares
           /\ SumAmounts(shares[e]) = expenses[e].amount

\* C10: after a successful create, or a successful update that replaces the
\* shares, every share of the expense is unsettled and no share row the
\* expense had before is left.
C10_SettlementDiscarded ==
    Reconciled =>
        LET e == ResponseExpense
            prior == IF e \in DOMAIN before.shares THEN before.shares[e] ELSE <<>>
        IN /\ \A k \in 1..Len(shares[e]) : ~shares[e][k].is_settled
           /\ ShareUsers(shares[e]) \cap ShareUsers(prior) = {}

C10_Witness ==
    /\ Reconciled
    /\ response.op = "patch"
    /\ \E k \in 1..Len(before.shares[response.target]) :
          before.shares[response.target][k].is_settled
    /\ shares[response.target] # <<>>

\* The shares of expense e that the request in flight turned from unsettled
\* to settled.
SettledNow(e) ==
    {k \in 1..Len(shares[e]) :
        shares[e][k].is_settled /\ ~before.shares[e][k].is_settled}

\* C11: settling an unsettled share of user u with amount a raises u's
\* balance by exactly a (the entry goes when u is then neither payer nor
\* holder of an unsettled share) and leaves every other user's balance,
\* the payer's included, as it was.
C11_SettleEffect ==
    (response.op = "settle" /\ response.status = 200) =>
        LET e == response.target
            g == expenses[e].group_id
            old == Balances(before, g)
            new == Balances(DB, g)
        IN \A k \in SettledNow(e) :
              LET u == shares[e][k].user_id
                  a == shares[e][k].amount
              IN /\ u \in DOMAIN old
                 /\ IF u \in DOMAIN new THEN new[u] = old[u] + a
                    ELSE old[u] + a = 0 /\ u \notin Participants(g)
                 /\ u \in Participants(g) => u \in DOMAIN new
                 /\ \A v \in Users \ {u} :
                       /\ v \in DOMAIN old <=> v \in DOMAIN new
                       /\ v \in DOMAIN old => new[v] = old[v]

C11_Witness ==
    /\ response.op = "settle"
    /\ response.status = 200
    /\ \E k \in SettledNow(response.target) :
          /\ shares[response.target][k].amount # 0
          /\ expenses[response.target].paid_by_user_id
                \notin {NoUser, shares[response.target][k].user_id}
          /\ Len(shares[response.target]) >= 2

\* The share list s with the share of user u marked settled.
WithSettled(s, u) ==
    [i \in 1..Len(s) |->
        IF s[i].user_id = u
        THEN [user_id |-> s[i].user_id, amount |-> s[i].amount, is_settled |-> TRUE]
        ELSE s[i]]

\* C12: settle on an existing share addressed through its own expense
\* succeeds, a second time too, and twice leaves what once leaves: the share
\* settled, its amount and user and every other row as they were.  Settle on
\* a share that is not of the given expense is answered 404 and changes
\* nothing.
C12_SettleIdempotent ==
    /\ Idle =>
          \A e \in LedgerExpenseIds, owner \in LedgerExpenseIds, u \in Users :
              LET once == ExpenseShareSettle(DB, e, owner, u)
                  twice == ExpenseShareSettle(once.db, e, owner, u)
              IN IF /\ e \in DOMAIN expenses
                    /\ owner = e
                    /\ u \in ShareUsers(shares[e])
                 THEN /\ once.status = 200
                      /\ twice.status = 200
                      /\ twice.db = once.db
                      /\ once.db = [DB EXCEPT !.shares[e] = WithSettled(shares[e], u)]
                 ELSE once.status = 404 /\ once.db = DB
    /\ (response.op = "settle" /\ response.status = 404) => DB = before
    /\ (response.op = "settle" /\ response.status = 200) =>
          /\ groups = before.groups
          /\ members = before.members
          /\ expenses = before.expenses
          /\ \E u \in Users :
                shares = [before.shares EXCEPT
                            ![response.target] = WithSettled(@, u)]

\* Settle answered 404 on an existing expense while every user holds a share
\* of each of the two expenses: the share named is of the other expense.
C12_Witness ==
    /\ response.op = "settle"
    /\ response.status = 404
    /\ DOMAIN expenses = LedgerExpenseIds
    /\ \A e \in LedgerExpenseIds : ShareUsers(shares[e]) = Users

\* Settle applied again to a share that was settled already.
C12_WitnessTwice ==
    /\ response.op = "settle"
    /\ response.status = 200
    /\ DB = before

\* No two rows of the share list s are of the same user.
OnePerUser(s) == \A i, j \in 1..Len(s) : i # j => s[i].user_id # s[j].user_id

\* The explicit shares of the body name some user twice.
ListsUserTwice(data) ==
    Has(data, "shares") /\ ~OnePerUser(data.shares)

\* C13: in every committed state an expense has at most one share per user;
\* a create or update whose explicit shares name a user twice commits no two
\* shares of that user, and a replacement naming a user who already holds a
\* share leaves exactly one share of that user.
C13_ShareUniqueness ==
    /\ \A e \in DOMAIN shares : OnePerUser(shares[e])
    /\ Idle =>
          /\ \A g \in groups, data \in CreateRequests :
                ListsUserTwice(data) =>
                    LET d == ExpensePost(DB, g, data).db
                    IN \A e \in DOMAIN d.shares : OnePerUser(d.shares[e])
          /\ \A e \in DOMAIN expenses, data \in UpdateRequests :
                LET d == ExpensePatch(DB, e, data).db
                IN /\ OnePerUser(d.shares[e])
                   /\ Has(data, "shares") =>
                         \A i \in 1..Len(data.shares) :
                            data.shares[i].user_id \in ShareUsers(shares[e]) =>
                                Cardinality({k \in 1..Len(d.shares[e]) :
                                    d.shares[e][k].user_id = data.shares[i].user_id}) = 1

C13_Witness ==
    /\ response.op = "patch"
    /\ response.has_shares
    /\ response.error = "integrity"
    /\ shares[response.target] # <<>>
    /\ OnePerUser(shares[response.target])

\* The update of expense e with body data passes every check of the update
\* path: the shares name members only and sum to the amount in force, and no
\* inserted row meets a stored row of the same user.
PassesUpdateChecks(e, data) ==
    /\ Has(data, "shares")
    /\ ~NonMemberRef(expenses[e].group_id, data)
    /\ ~MismatchOnUpdate(e, data)
    /\ OnePerUser(data.shares)
    /\ \A i \in 1..Len(data.shares) :
          data.shares[i].user_id \notin ShareUsers(shares[e])

\* C14: a create whose explicit shares hold an amount <= 0 is rejected and
\* persists nothing, so every share stored by a successful create with
\* explicit shares has a stored amount > 0; the update path applies no such
\* check, only the others.
C14_NonPositiveRejected ==
    /\ Idle =>
          /\ \A g \in groups, data \in RoundingCreateRequests :
                NonPositiveShare(data) =>
                    LET r == ExpensePost(DB, g, data)
                    IN r.status \notin {200, 201} /\ r.db = DB
          /\ \A e \in DOMAIN expenses, data \in RoundingUpdateRequests :
                PassesUpdateChecks(e, data) => ExpensePatch(DB, e, data).status = 200
    /\ (response.op = "post" /\ response.status = 201 /\ response.has_shares) =>
          \A k \in 1..Len(shares[ResponseExpense]) :
              shares[ResponseExpense][k].amount > 0

\* The expenses stored in tables d that belong to group g.
ExpensesOf(d, g) == {e \in DOMAIN d.expenses : d.expenses[e].group_id = g}

\* C15: after a successful group delete the group has no membership, expense
\* or share left, and the other groups with their memberships, expenses and
\* shares are as before; an expense delete removes that expense with all its
\* shares and nothing else.
C15_Cascade ==
    /\ (response.op = "group_delete" /\ response.status = 204) =>
          LET g == response.target IN
          /\ groups = before.groups \ {g}
          /\ members[g] = <<>>
          /\ ExpensesOf(DB, g) = {}
          /\ DOMAIN shares = DOMAIN expenses
          /\ \A h \in LedgerGroupIds \ {g} :
                /\ members[h] = before.members[h]
                /\ ExpensesOf(DB, h) = ExpensesOf(before, h)
                /\ \A e \in ExpensesOf(before, h) :
                      /\ expenses[e] = before.expenses[e]
                      /\ shares[e] = before.shares[e]
    /\ (response.op = "delete" /\ response.status = 204) =>
          LET e == response.target IN
          /\ groups = before.groups
          /\ members = before.members
          /\ DOMAIN expenses = DOMAIN before.expenses \ {e}
          /\ DOMAIN shares = DOMAIN expenses
          /\ \A x \in DOMAIN expenses :
                /\ expenses[x] = before.expenses[x]
                /\ shares[x] = before.shares[x]

C15_Witness ==
    /\ response.op = "group_delete"
    /\ response.status = 204
    /\ before.members[response.target] # <<>>
    /\ \E e \in ExpensesOf(before, response.target) : before.shares[e] # <<>>
    /\ \E h \in groups :
          /\ members[h] # <<>>
          /\ \E e \in ExpensesOf(DB, h) : shares[e] # <<>>

\* Worker p has answered a request of kind op.
Answered(p, op) == txns[p].pc = "done" /\ txns[p].op = op

\* C16: no group holds two memberships of one user, and an add-member
\* request for an existing group that does not add the user answers 409
\* and nothing else, also when it passed the existence check while another
\* request for the same (group, user) had not yet committed.
C16_DuplicateAddIs409 ==
    /\ \A g \in GroupIds :
          \A i, j \in 1..Len(members[g]) : members[g][i] = members[g][j] => i = j
    /\ \A p \in Procs :
          (Answered(p, "member_post") /\ txns[p].group_id \in groups
             /\ txns[p].status # 201)
          => txns[p].status = 409

\* The share rows of expense e do not sum to its amount.
Unbalanced(e) == SumAmounts(shares[e]) # expenses[e].amount

\* Updates of two different expenses, planned on the same tables, commit in
\* either order to the tables that serving them one after the other gives.
Commute(e1, d1, e2, d2) ==
    LET p1 == PatchPlan(DB, e1, d1)
        p2 == PatchPlan(DB, e2, d2)
    IN (p1.status = 0 /\ p2.status = 0) =>
          LET w12 == PatchWrite(PatchWrite(DB, p1, FALSE).db, p2, FALSE)
              w21 == PatchWrite(PatchWrite(DB, p2, FALSE).db, p1, FALSE)
              s12 == ExpensePatch(ExpensePatch(DB, e1, d1).db, e2, d2)
              s21 == ExpensePatch(ExpensePatch(DB, e2, d2).db, e1, d1)
          IN /\ w12.db = w21.db
             /\ w12.db = s12.db
             /\ s12.db = s21.db

\* C17: the shares of an expense stop summing to its amount only where an
\* update committed share rows after another update of the same expense had
\* committed in between (the witness is such an interleaving); updates of
\* different expenses commute.
C17_LostUpdate ==
    /\ \A e \in DOMAIN expenses : Unbalanced(e) => e \in raced
    /\ \A e1, e2 \in DOMAIN expenses :
          e1 # e2 => \A d1, d2 \in RaceUpdateRequests : Commute(e1, d1, e2, d2)

C17_Witness ==
    \E e \in DOMAIN expenses :
        /\ \A p \in Procs :
              /\ Answered(p, "patch")
              /\ txns[p].status = 200
              /\ txns[p].expense_id = e
              /\ ~txns[p].has_amount
        /\ \E p \in Procs : txns[p].stale
        /\ e \in raced
        /\ Unbalanced(e)
        /\ Cardinality(DOMAIN expenses) = 2

\* The expenses of group g.
GroupExpenses(g) == {e \in DOMAIN expenses : expenses[e].group_id = g}

\* Sum of the amounts of the expenses of g that have a payer.
PaidTotal(g) ==
    SumFn([e \in {x \in GroupExpenses(g) : expenses[x].paid_by_user_id # NoUser}
              |-> expenses[e].amount])

\* Sum of the amounts of the unsettled shares of the expenses of g.
UnsettledTotal(g) ==
    SumFn([e \in GroupExpenses(g) |->
              SumAmounts(SelectSeq(shares[e], LAMBDA sh : ~sh.is_settled))])

\* Every expense of g has a payer and none of its shares is settled.
AllPaidNoneSettled(g) ==
    \A e \in GroupExpenses(g) :
        /\ expenses[e].paid_by_user_id # NoUser
        /\ \A i \in 1..Len(shares[e]) : ~shares[e][i].is_settled

\* The balances of a group sum to the amounts of its
\* expenses that have a payer minus the amounts of its unsettled shares.
C18_BalanceSum ==
    \A g \in groups : SumFn(Balances(DB, g)) = PaidTotal(g) - UnsettledTotal(g)

\* C18: where every expense of a group has a payer and no share of the group
\* is settled, the balances returned for the group sum to zero; in general
\* they sum to the paid amounts minus the unsettled shares.
C18_ZeroSum ==
    /\ \A g \in groups : AllPaidNoneSettled(g) => SumFn(Balances(DB, g)) = 0
    /\ C18_BalanceSum

\* The rows new are the rows old with the flag of one unsettled row set.
OneFlagSet(old, new) ==
    /\ Len(new) = Len(old)
    /\ \E i \in 1..Len(old) :
          /\ ~old[i].is_settled
          /\ new[i] = [old[i] EXCEPT !.is_settled = TRUE]
          /\ \A j \in 1..Len(old) : j # i => new[j] = old[j]

\* The request served carried share replacement for its expense.
Replaces ==
    \/ response.op = "post"
    \/ response.op = "patch" /\ (response.has_amount \/ response.has_shares)

\* C19: a request leaves the shares of every expense as it found them,
\* except that an update carrying amount or shares may replace those of its
\* expense, settle sets the flag of one unsettled share of its expense,
\* deleting an expense or its group removes them, and a create adds those of
\* the new expense.  So an update without amount and shares, receipt upload
\* and delete, member add, role change and removal, and GET balances change
\* no share, and removing a member also leaves the expenses and every
\* balance as they were.
C19_ShareFrame ==
    response.op # "idle" =>
        LET op == response.op
            target == response.target
        IN /\ \A e \in DOMAIN before.shares :
                \/ e \in DOMAIN shares /\ shares[e] = before.shares[e]
                \/ op = "patch" /\ Replaces /\ e = target
                \/ /\ op = "settle" /\ e = target /\ e \in DOMAIN shares
                   /\ OneFlagSet(before.shares[e], shares[e])
                \/ op = "delete" /\ e = target /\ e \notin DOMAIN shares
                \/ /\ op = "group_delete" /\ before.expenses[e].group_id = target
                   /\ e \notin DOMAIN shares
           /\ \A e \in DOMAIN shares \ DOMAIN before.shares : op = "post"
           /\ ~Replaces /\ op \notin {"settle", "delete", "group_delete"}
                 => shares = before.shares
           /\ op = "member_delete" =>
                 /\ expenses = before.expenses
                 /\ \A g \in groups : Balances(DB, g) = Balances(before, g)

\* A member who paid an expense and holds an unsettled share has been
\* removed from a group in which a settled share is stored, and still has a
\* balance.
C19_Witness ==
    /\ response.op = "member_delete"
    /\ response.status = 204
    /\ \E u \in Users, e \in DOMAIN expenses :
          /\ IsMember(before, response.target, u)
          /\ ~IsMember(DB, response.target, u)
          /\ expenses[e].group_id = response.target
          /\ expenses[e].paid_by_user_id = u
          /\ expenses[e].receipt_filename # NoFile
          /\ \E i \in 1..Len(shares[e]) :
                shares[e][i].user_id = u /\ ~shares[e][i].is_settled
          /\ \E x \in DOMAIN shares :
                \E i \in 1..Len(shares[x]) : shares[x][i].is_settled
          /\ u \in DOMAIN Balances(DB, response.target)

====
